---- MODULE Spec2Model ----
(***************************************************************************)
(* The test-fixture scripts of the LibLinear and LibSVM classification     *)
(* back ends:                                                              *)
(*   Classification/LibLinear/src/test/scripts/generate_test_data.py      *)
(*   Classification/LibSVM/src/test/scripts/generate_test_data.py         *)
(* generate_data writes a labelled fixture file from a seeded generator;   *)
(* generate_models runs the external trainer once per configuration.       *)
(*                                                                         *)
(* Python strings are strings; formatting, concatenation, the shell's      *)
(* word splitting and the lines of a file are computed character by        *)
(* character (SubSeq(s, k, k) is the k-th character of s).                 *)
(***************************************************************************)
EXTENDS Integers, Sequences, FiniteSets, TLC

VARIABLES
    backend,        \* which of the two scripts runs
    pc,             \* position of the interpreter
    calls,          \* calls the caller has made so far
    mode,           \* generate_data: argument mode
    problem_type,   \* generate_data: argument problem_type
    rng,            \* generate_data: state of the RandomState object
    labels,         \* generate_data: local labels
    counts,         \* generate_data: local counts (dict label -> int)
    n,              \* generate_data: local n
    i,              \* generate_data: iterations of the for loop completed
    lns,            \* generate_data: local lns
    fs,             \* the working directory: file name -> bytes
    stdout,         \* the object most recently printed
    exc,            \* the exception being propagated, "none" if none
    idx,            \* generate_models: position in the (outer) for loop
    kidx,           \* generate_models (LibSVM): position in the inner loop
    part,           \* generate_models (LibSVM): 1 binary, 2 multiclass command
    running,        \* the children still running, by position in invocations
    invocations,    \* the commands handed to os.system so far, in order
    exits           \* the statuses os.system has returned so far, in order

vars == <<backend, pc, calls, mode, problem_type, rng, labels, counts, n, i,
          lns, fs, stdout, exc, idx, kidx, part, running, invocations, exits>>

genLocals == <<mode, problem_type, rng, labels, counts, n, i, lns>>
modelVars == <<idx, kidx, part, running, invocations, exits>>

(***************************************************************************)
(* String literals of the scripts.                                         *)
(***************************************************************************)
texts == <<"aaa", "bbb", "ccc">>

LineFmtOneHash == "%s#%s\n"

LineFmt == "%s##%s\n"

NameFmt == "%s_input_%s.tribuo"

lltypes ==
    <<"L2R_LR", "L2R_L2LOSS_SVC_DUAL", "L2R_L2LOSS_SVC",
      "L2R_L1LOSS_SVC_DUAL", "MCSVM_CS", "L1R_L2LOSS_SVC", "L1R_LR",
      "L2R_LR_DUAL">>

lstypes == <<"C_SVC", "NU_SVC">>

\* The kernel list one entry short.
ktypesShort == <<"LINEAR", "POLY", "RBF">>

ktypes == <<"LINEAR", "POLY", "RBF", "SIGMOID">>

CmdFmt4 == "./src/test/scripts/generate-model.sh %s %s %s %s"

CmdFmt5 == "./src/test/scripts/generate-model.sh %s %s %s %s %s"

\* The domains of generate_data's arguments, and the arguments a caller
\* other than __main__ may pass.
Modes == {"train", "test"}
ProblemTypes == {"binary", "multiclass"}
ArgModes == Modes \cup {"dev"}
ArgProblemTypes == ProblemTypes \cup {"regression"}

\* Bound on the number of trainer invocations that exit non-zero in one run.
MaxFail == 2

\* Granularity of a failed write: the bytes reach the disk a buffer at a
\* time, and a write that fails leaves a whole number of buffers.
WriteChunk == 8192

\* The statuses os.system can return: success, or a child that exited 1.
ExitStatuses == {0, 256}

Seed == 1
NTrain == 1000
NTest == 100

\* Bound on the number of generate_data calls an arbitrary caller makes.
MaxCalls == 3

(***************************************************************************)
(* Python's % formatting with %s conversions only.                         *)
(***************************************************************************)
First(S) == CHOOSE k \in S : \A j \in S : k <= j

\* Each %s of fmt, from the left, is replaced by the next argument: the
\* result is the literal text before the first conversion, the first
\* argument, the literal text up to the second conversion, and so on to
\* the literal text after the last conversion.
PyFormat(fmt, args) ==
    LET conv == {k \in 1..(Len(fmt) - 1) : SubSeq(fmt, k, k + 1) = "%s"}
        Nth(j) == CHOOSE k \in conv : Cardinality({q \in conv : q < k}) = j - 1
        Literal(j) ==
            SubSeq(fmt,
                   IF j = 1 THEN 1 ELSE Nth(j - 1) + 2,
                   IF j > Cardinality(conv) THEN Len(fmt) ELSE Nth(j) - 1)
        RECURSIVE Join(_)
        Join(j) ==
            IF j > Cardinality(conv) THEN Literal(j)
            ELSE Literal(j) \o args[j] \o Join(j + 1)
    IN  Join(1)

\* The bytes a file holds after f.write(ln) for ln = s[lo], ..., s[hi].
RECURSIVE WriteAll(_, _, _)
WriteAll(s, lo, hi) ==
    IF lo > hi THEN ""
    ELSE IF lo = hi THEN s[lo]
    ELSE LET mid == (lo + hi) \div 2
         IN  WriteAll(s, lo, mid) \o WriteAll(s, mid + 1, hi)

(***************************************************************************)
(* numpy.random.RandomState: a deterministic generator whose whole state   *)
(* is fixed by the seed.  The library's Mersenne Twister is outside the    *)
(* repository; a full-period 16-bit congruential generator stands for it,  *)
(* and choice keeps the library's masked rejection sampling, so lists of   *)
(* different lengths consume the stream differently.                       *)
(***************************************************************************)
\* RandomState() without a seed: the state differs from call to call.
RandomStateUnseeded(seed) == ((seed + calls) * 40503 + 12345) % 65536

RandomState(seed) == (seed * 40503 + 12345) % 65536

NextState(s) == (25173 * s + 13849) % 65536

NextWord(s) == s \div 4096

RECURSIVE GenMask(_)
GenMask(max) == IF max = 0 THEN 0 ELSE 2 * GenMask(max \div 2) + 1

RECURSIVE BoundedMasked(_, _, _)
BoundedMasked(s, max, mask) ==
    LET s2 == NextState(s)
        val == NextWord(s2) % (mask + 1)
    IN  IF val > max THEN BoundedMasked(s2, max, mask)
        ELSE [state |-> s2, val |-> val]

\* rng.choice(a): the element drawn and the generator's next state.
Choice(s, a) ==
    LET d == BoundedMasked(s, Len(a) - 1, GenMask(Len(a) - 1))
    IN  [state |-> d.state, val |-> a[d.val + 1]]

(***************************************************************************)
(* The file system.                                                        *)
(***************************************************************************)
FileName(m, p) == PyFormat(NameFmt, <<m, p>>)

Put(files, name, data) ==
    [f \in (DOMAIN files) \cup {name} |-> IF f = name THEN data ELSE files[f]]

NoFiles == [f \in {} |-> ""]

(***************************************************************************)
(* generate_data                                                           *)
(***************************************************************************)
\* The label list without the test of problem_type.
LabelsOfAny(p) == <<"POS", "NEG", "NEU">>

LabelsOf(p) ==
    IF p = "binary" THEN <<"POS", "NEG">> ELSE <<"POS", "NEG", "NEU">>

\* The sizes of the two modes swapped.
SizeOfSwapped(m) == IF m = "train" THEN NTest ELSE NTrain

SizeOf(m) == IF m = "train" THEN NTrain ELSE NTest

Range(s) == {s[k] : k \in DOMAIN s}

\* The assertion compiled away.
AssertModeOff(m) == TRUE

\* Line 20: assert mode == 'train' or mode == 'test'
AssertMode(m) == m = "train" \/ m = "test"

\* The generator seeded with a value that depends on the mode.
generate_dataSeedByMode(m, p) ==
    /\ mode' = m
    /\ problem_type' = p
    /\ IF AssertMode(m)
       THEN /\ rng' = RandomState(IF m = "train" THEN Seed ELSE Seed + 1)
            /\ labels' = LabelsOf(p)
            /\ counts' = [l \in Range(LabelsOf(p)) |-> 0]
            /\ n' = SizeOf(m)
            /\ lns' = <<>>
            /\ i' = 0
            /\ pc' = "loop"
            /\ exc' = "none"
       ELSE /\ pc' = "raised"
            /\ exc' = "AssertionError"
            /\ UNCHANGED <<rng, labels, counts, n, lns, i>>
    /\ UNCHANGED <<fs, stdout>>

\* Lines 20-32: the assertion and the locals set up before the loop.
generate_data(m, p) ==
    /\ mode' = m
    /\ problem_type' = p
    /\ IF AssertMode(m)
       THEN /\ rng' = RandomState(Seed)
            /\ labels' = LabelsOf(p)
            /\ counts' = [l \in Range(LabelsOf(p)) |-> 0]
            /\ n' = SizeOf(m)
            /\ lns' = <<>>
            /\ i' = 0
            /\ pc' = "loop"
            /\ exc' = "none"
       ELSE /\ pc' = "raised"
            /\ exc' = "AssertionError"
            /\ UNCHANGED <<rng, labels, counts, n, lns, i>>
    /\ UNCHANGED <<fs, stdout>>

\* Lines 33-37: one iteration of the for loop.
LoopIter ==
    /\ pc = "loop"
    /\ i < n
    /\ LET dy == Choice(rng, labels)
           dx == Choice(dy.state, texts)
       IN  /\ counts' = [counts EXCEPT ![dy.val] = @ + 1]
           /\ lns' = Append(lns, PyFormat(LineFmt, <<dy.val, dx.val>>))
           /\ rng' = dx.state
    /\ i' = i + 1
    /\ UNCHANGED <<backend, pc, calls, mode, problem_type, labels, n, fs,
                   stdout, exc>>
    /\ UNCHANGED modelVars

\* Line 38: the loop is exhausted, print(counts).
LoopExit ==
    /\ pc = "loop"
    /\ i = n
    /\ stdout' = counts
    /\ pc' = "open"
    /\ UNCHANGED <<backend, calls, fs, exc>>
    /\ UNCHANGED genLocals
    /\ UNCHANGED modelVars

\* Line 39: open(name, 'w') creates or truncates the file.
Open ==
    /\ pc = "open"
    /\ fs' = Put(fs, FileName(mode, problem_type), "")
    /\ pc' = "write"
    /\ UNCHANGED <<backend, calls, stdout, exc>>
    /\ UNCHANGED genLocals
    /\ UNCHANGED modelVars

\* Lines 40-41: every line is written and the file is closed.
Write ==
    /\ pc = "write"
    /\ fs' = Put(fs, FileName(mode, problem_type), WriteAll(lns, 1, Len(lns)))
    /\ pc' = "return"
    /\ UNCHANGED <<backend, calls, stdout, exc>>
    /\ UNCHANGED genLocals
    /\ UNCHANGED modelVars

\* generate_data returns: its locals are gone.
Return ==
    /\ pc = "return"
    /\ pc' = "caller"
    /\ mode' = ""
    /\ problem_type' = ""
    /\ rng' = 0
    /\ labels' = <<>>
    /\ counts' = <<>>
    /\ n' = 0
    /\ i' = 0
    /\ lns' = <<>>
    /\ UNCHANGED <<backend, calls, fs, stdout, exc>>
    /\ UNCHANGED modelVars

(***************************************************************************)
(* The disk fails: open raises, or a write raises with the first buffers   *)
(* of the bytes on disk.  The exception leaves generate_data.              *)
(***************************************************************************)
OpenFail ==
    /\ pc = "open"
    /\ pc' = "raised"
    /\ exc' = "OSError"
    /\ UNCHANGED <<backend, calls, fs, stdout>>
    /\ UNCHANGED genLocals
    /\ UNCHANGED modelVars

WriteFail ==
    /\ pc = "write"
    /\ LET data == WriteAll(lns, 1, Len(lns))
       IN  \E k \in {j \in 0..(Len(data) - 1) : j % WriteChunk = 0} :
               fs' = Put(fs, FileName(mode, problem_type), SubSeq(data, 1, k))
    /\ pc' = "raised"
    /\ exc' = "OSError"
    /\ UNCHANGED <<backend, calls, stdout>>
    /\ UNCHANGED genLocals
    /\ UNCHANGED modelVars

(***************************************************************************)
(* generate_models                                                         *)
(***************************************************************************)
\* What the trainer receives: sh splits the command line at the blanks.
\* A word starts at a non-blank that follows a blank or starts the line,
\* and runs up to the next blank or the end of the line.
ShellWords(s) ==
    LET blanks == {k \in 1..Len(s) : SubSeq(s, k, k) = " "}
        starts == {k \in (1..Len(s)) \ blanks : k = 1 \/ (k - 1) \in blanks}
        Nth(j) == CHOOSE k \in starts :
                      Cardinality({q \in starts : q < k}) = j - 1
        End(k) == First({q \in blanks \cup {Len(s) + 1} : q > k}) - 1
    IN  [j \in 1..Cardinality(starts) |-> SubSeq(s, Nth(j), End(Nth(j)))]

Failures(es) == Cardinality({k \in DOMAIN es : es[k] # 0})

\* print(cmd); os.system(cmd) up to the point where the child runs.
OsSystem(cmd) ==
    /\ stdout' = cmd
    /\ invocations' = Append(invocations, cmd)
    /\ running' = running \cup {Len(invocations) + 1}
    /\ pc' = "system"

\* os.system returning while the child still runs.
WaitNot(status) ==
    /\ status # 0 => Failures(exits) < MaxFail
    /\ exits' = Append(exits, status)
    /\ running' = running

\* os.system waits for the child it started and returns its status.
Wait(status) ==
    /\ status # 0 => Failures(exits) < MaxFail
    /\ exits' = Append(exits, status)
    /\ running' = running \ {Len(invocations)}

\* LibLinear lines 56 and 61.
LibLinearBinaryCmd(lltype) ==
    PyFormat(CmdFmt4,
             <<lltype, lltype, "train_input_binary.tribuo",
               "test_input_binary.tribuo">>)

\* The multiclass command with the artifact named like the binary one.
LibLinearMulticlassCmdNoSuffix(lltype) ==
    PyFormat(CmdFmt4,
             <<lltype, lltype, "train_input_multiclass.tribuo",
               "test_input_multiclass.tribuo">>)

\* The multiclass command built from the last identifier of the loop.
LibLinearMulticlassCmdLast(lltype) ==
    PyFormat(CmdFmt4,
             <<lltypes[Len(lltypes)], lltypes[Len(lltypes)] \o "_multiclass",
               "train_input_multiclass.tribuo",
               "test_input_multiclass.tribuo">>)

LibLinearMulticlassCmd(lltype) ==
    PyFormat(CmdFmt4,
             <<lltype, lltype \o "_multiclass",
               "train_input_multiclass.tribuo",
               "test_input_multiclass.tribuo">>)

\* LibSVM lines 59 and 62.
LibSVMBinaryCmd(lstype, ktype) ==
    PyFormat(CmdFmt5,
             <<lstype, ktype, lstype \o "_" \o ktype,
               "train_input_binary.tribuo", "test_input_binary.tribuo">>)

\* The multiclass command trained on the binary fixtures.
LibSVMMulticlassCmdBinaryFixtures(lstype, ktype) ==
    PyFormat(CmdFmt5,
             <<lstype, ktype, lstype \o "_" \o ktype \o "_multiclass",
               "train_input_binary.tribuo", "test_input_binary.tribuo">>)

LibSVMMulticlassCmd(lstype, ktype) ==
    PyFormat(CmdFmt5,
             <<lstype, ktype, lstype \o "_" \o ktype \o "_multiclass",
               "train_input_multiclass.tribuo",
               "test_input_multiclass.tribuo">>)

\* generate_models is entered: the for loop starts at the first identifier.
generate_models ==
    /\ pc' = "for"
    /\ idx' = 1
    /\ kidx' = 1
    /\ part' = 1
    /\ UNCHANGED <<running, invocations, exits, stdout>>

\* LibLinear lines 55-58: the loop body, up to the child running.
LibLinearLoop ==
    /\ backend = "LibLinear"
    /\ pc = "for"
    /\ part = 1
    /\ idx <= Len(lltypes)
    /\ OsSystem(LibLinearBinaryCmd(lltypes[idx]))
    /\ UNCHANGED <<backend, calls, fs, exc, idx, kidx, part, exits>>
    /\ UNCHANGED genLocals

\* LibLinear lines 60-63: the multiclass model, after the loop.
LibLinearMulticlass ==
    /\ backend = "LibLinear"
    /\ pc = "for"
    /\ part = 2
    /\ OsSystem(LibLinearMulticlassCmd("L2R_LR"))
    /\ UNCHANGED <<backend, calls, fs, exc, idx, kidx, part, exits>>
    /\ UNCHANGED genLocals

\* LibLinear: a command whose status is non-zero is run again.
LibLinearSystemReturnRetry ==
    /\ backend = "LibLinear"
    /\ pc = "system"
    /\ \E status \in ExitStatuses :
          /\ Wait(status)
          /\ IF status # 0
             THEN /\ pc' = "for"
                  /\ UNCHANGED <<idx, part>>
             ELSE IF part = 1
                  THEN /\ idx' = idx + 1
                       /\ part' = IF idx + 1 > Len(lltypes) THEN 2 ELSE 1
                       /\ pc' = "for"
                  ELSE /\ pc' = "exit"
                       /\ UNCHANGED <<idx, part>>
    /\ UNCHANGED <<backend, calls, fs, stdout, exc, kidx, invocations>>
    /\ UNCHANGED genLocals

\* LibLinear: the status is checked and a non-zero one raises.
LibLinearSystemReturnChecked ==
    /\ backend = "LibLinear"
    /\ pc = "system"
    /\ \E status \in ExitStatuses :
          /\ Wait(status)
          /\ IF status # 0
             THEN /\ pc' = "raised"
                  /\ exc' = "CalledProcessError"
                  /\ UNCHANGED <<idx, part>>
             ELSE /\ exc' = exc
                  /\ IF part = 1
                     THEN /\ idx' = idx + 1
                          /\ part' = IF idx + 1 > Len(lltypes) THEN 2 ELSE 1
                          /\ pc' = "for"
                     ELSE /\ pc' = "exit"
                          /\ UNCHANGED <<idx, part>>
    /\ UNCHANGED <<backend, calls, fs, stdout, kidx, invocations>>
    /\ UNCHANGED genLocals

\* LibLinear: os.system returns; its value is dropped.
LibLinearSystemReturn ==
    /\ backend = "LibLinear"
    /\ pc = "system"
    /\ \E status \in ExitStatuses : Wait(status)
    /\ IF part = 1
       THEN /\ idx' = idx + 1
            /\ part' = IF idx + 1 > Len(lltypes) THEN 2 ELSE 1
            /\ pc' = "for"
       ELSE /\ pc' = "exit"
            /\ UNCHANGED <<idx, part>>
    /\ UNCHANGED <<backend, calls, fs, stdout, exc, kidx, invocations>>
    /\ UNCHANGED genLocals

\* LibSVM lines 57-61: the first command of the inner loop body.
LibSVMBinary ==
    /\ backend = "LibSVM"
    /\ pc = "for"
    /\ part = 1
    /\ idx <= Len(lstypes)
    /\ kidx <= Len(ktypes)
    /\ OsSystem(LibSVMBinaryCmd(lstypes[idx], ktypes[kidx]))
    /\ UNCHANGED <<backend, calls, fs, exc, idx, kidx, part, exits>>
    /\ UNCHANGED genLocals

\* LibSVM lines 62-64: the second command of the inner loop body.
LibSVMMulticlass ==
    /\ backend = "LibSVM"
    /\ pc = "for"
    /\ part = 2
    /\ OsSystem(LibSVMMulticlassCmd(lstypes[idx], ktypes[kidx]))
    /\ UNCHANGED <<backend, calls, fs, exc, idx, kidx, part, exits>>
    /\ UNCHANGED genLocals

\* LibSVM: the two for loops nested the other way round, the kernel type
\* outside and the loss type inside.
LibSVMSystemReturnKernelOuter ==
    /\ backend = "LibSVM"
    /\ pc = "system"
    /\ \E status \in ExitStatuses : Wait(status)
    /\ IF part = 1
       THEN /\ part' = 2
            /\ pc' = "for"
            /\ UNCHANGED <<idx, kidx>>
       ELSE /\ part' = 1
            /\ idx' = IF idx < Len(lstypes) THEN idx + 1 ELSE 1
            /\ kidx' = IF idx < Len(lstypes) THEN kidx ELSE kidx + 1
            /\ pc' = IF kidx = Len(ktypes) /\ idx = Len(lstypes)
                     THEN "exit" ELSE "for"
    /\ UNCHANGED <<backend, calls, fs, stdout, exc, invocations>>
    /\ UNCHANGED genLocals

\* LibSVM: os.system returns; its value is dropped.
LibSVMSystemReturn ==
    /\ backend = "LibSVM"
    /\ pc = "system"
    /\ \E status \in ExitStatuses : Wait(status)
    /\ IF part = 1
       THEN /\ part' = 2
            /\ pc' = "for"
            /\ UNCHANGED <<idx, kidx>>
       ELSE /\ part' = 1
            /\ kidx' = IF kidx < Len(ktypes) THEN kidx + 1 ELSE 1
            /\ idx' = IF kidx < Len(ktypes) THEN idx ELSE idx + 1
            /\ pc' = IF kidx = Len(ktypes) /\ idx = Len(lstypes)
                     THEN "exit" ELSE "for"
    /\ UNCHANGED <<backend, calls, fs, stdout, exc, invocations>>
    /\ UNCHANGED genLocals

(***************************************************************************)
(* __main__                                                                *)
(***************************************************************************)
\* __main__ without its last generate_data call.
MainCallsShort ==
    <<[mode |-> "train", problem_type |-> "binary"],
      [mode |-> "test", problem_type |-> "binary"],
      [mode |-> "train", problem_type |-> "multiclass"]>>

\* The arguments of the four generate_data calls; problem_type defaults to
\* 'binary'.
MainCalls ==
    <<[mode |-> "train", problem_type |-> "binary"],
      [mode |-> "test", problem_type |-> "binary"],
      [mode |-> "train", problem_type |-> "multiclass"],
      [mode |-> "test", problem_type |-> "multiclass"]>>

MainGenerate ==
    /\ pc = "caller"
    /\ calls < Len(MainCalls)
    /\ generate_data(MainCalls[calls + 1].mode,
                     MainCalls[calls + 1].problem_type)
    /\ calls' = calls + 1
    /\ UNCHANGED backend
    /\ UNCHANGED modelVars

MainModels ==
    /\ pc = "caller"
    /\ calls = Len(MainCalls)
    /\ generate_models
    /\ calls' = calls + 1
    /\ UNCHANGED <<backend, fs, exc>>
    /\ UNCHANGED genLocals

\* __main__ handling the exception and going on with its next statement.
MainAbortHandled ==
    /\ pc = "raised"
    /\ pc' = "caller"
    /\ exc' = "none"
    /\ UNCHANGED <<backend, calls, fs, stdout>>
    /\ UNCHANGED genLocals
    /\ UNCHANGED modelVars

\* An exception nobody handles ends the interpreter.
MainAbort ==
    /\ pc = "raised"
    /\ pc' = "exit"
    /\ UNCHANGED <<backend, calls, fs, stdout, exc>>
    /\ UNCHANGED genLocals
    /\ UNCHANGED modelVars

(***************************************************************************)
(* An arbitrary caller of generate_data.                                   *)
(***************************************************************************)
CallerCall ==
    /\ pc = "caller"
    /\ calls < MaxCalls
    /\ \E m \in ArgModes, p \in ArgProblemTypes : generate_data(m, p)
    /\ calls' = calls + 1
    /\ UNCHANGED backend
    /\ UNCHANGED modelVars

\* The caller handles the exception and goes on.
CallerCatch ==
    /\ pc = "raised"
    /\ pc' = "caller"
    /\ exc' = "none"
    /\ mode' = ""
    /\ problem_type' = ""
    /\ UNCHANGED <<backend, calls, rng, labels, counts, n, i, lns, fs, stdout>>
    /\ UNCHANGED modelVars

Init ==
    /\ backend \in {"LibLinear", "LibSVM"}
    /\ pc = "caller"
    /\ calls = 0
    /\ mode = ""
    /\ problem_type = ""
    /\ rng = 0
    /\ labels = <<>>
    /\ counts = <<>>
    /\ n = 0
    /\ i = 0
    /\ lns = <<>>
    /\ fs = NoFiles
    /\ stdout = ""
    /\ exc = "none"
    /\ idx = 0
    /\ kidx = 0
    /\ part = 0
    /\ running = {}
    /\ invocations = <<>>
    /\ exits = <<>>

NextCalls ==
    \/ CallerCall
    \/ CallerCatch
    \/ LoopIter
    \/ LoopExit
    \/ Open
    \/ Write
    \/ Return

SpecCalls == Init /\ [][NextCalls]_vars

Next ==
    \/ MainGenerate
    \/ LoopIter
    \/ LoopExit
    \/ Open
    \/ OpenFail
    \/ Write
    \/ WriteFail
    \/ Return
    \/ MainAbort
    \/ MainModels
    \/ LibLinearLoop
    \/ LibLinearMulticlass
    \/ LibLinearSystemReturn
    \/ LibSVMBinary
    \/ LibSVMMulticlass
    \/ LibSVMSystemReturn

Spec == Init /\ [][Next]_vars

\* The run with progress: the interpreter, once in generate_models, goes on
\* to its next statement, and every trainer that was started ends, so that
\* os.system returns.
SpecFair ==
    /\ Init
    /\ [][Next]_vars
    /\ WF_vars(LibLinearLoop \/ LibLinearMulticlass
                  \/ LibSVMBinary \/ LibSVMMulticlass)
    /\ WF_vars(LibLinearSystemReturn \/ LibSVMSystemReturn)

(***************************************************************************)
(* Reading a fixture file back.                                            *)
(***************************************************************************)
RECURSIVE Newlines(_, _, _)
Newlines(d, lo, hi) ==
    IF lo > hi THEN <<>>
    ELSE IF lo = hi THEN (IF SubSeq(d, lo, lo) = "\n" THEN <<lo>> ELSE <<>>)
    ELSE LET mid == (lo + hi) \div 2
         IN  Newlines(d, lo, mid) \o Newlines(d, mid + 1, hi)

\* The lines of a file, each with its terminator; bytes after the last
\* newline form a last, unterminated line.
Lines(d) ==
    LET nl == Newlines(d, 1, Len(d))
        whole == [k \in 1..Len(nl) |->
                     SubSeq(d, IF k = 1 THEN 1 ELSE nl[k - 1] + 1, nl[k])]
        last == IF nl = <<>> THEN 0 ELSE nl[Len(nl)]
    IN  IF last < Len(d) THEN Append(whole, SubSeq(d, last + 1, Len(d)))
        ELSE whole

\* The positions at which the separator ## starts in a line.
Separators(ln) == {k \in 1..(Len(ln) - 1) : SubSeq(ln, k, k + 1) = "##"}

LabelOf(ln) == SubSeq(ln, 1, First(Separators(ln)) - 1)

TokenOf(ln) == SubSeq(ln, First(Separators(ln)) + 2, Len(ln) - 1)

RECURSIVE SumOver(_, _)
SumOver(f, S) ==
    IF S = {} THEN 0
    ELSE LET x == CHOOSE y \in S : TRUE IN f[x] + SumOver(f, S \ {x})

Total(c) == SumOver(c, DOMAIN c)

Written == fs[FileName(mode, problem_type)]

Generated == WriteAll(lns, 1, Len(lns))

(***************************************************************************)
(* C1.  generate_data is deterministic: a run with the arguments of an     *)
(* earlier run produces, and writes, exactly the bytes the earlier run     *)
(* left in the file, whatever calls were made before or between them.      *)
(* Checked for arbitrary callers (SpecCalls): when a run has generated     *)
(* its lines and the file of an earlier run with the same arguments is     *)
(* still on disk, the two are byte-identical, and what a run leaves in     *)
(* the file is exactly what it generated.                                  *)
(***************************************************************************)
Deterministic ==
    /\ (pc = "open" /\ FileName(mode, problem_type) \in DOMAIN fs)
           => Written = Generated
    /\ pc = "return" => Written = Generated

\* A run has generated its lines while the file of an earlier run with the
\* same arguments is on disk, with a run for another file made as well.
DeterministicWitness ==
    /\ pc = "open"
    /\ calls = 3
    /\ mode = "test"
    /\ problem_type = "multiclass"
    /\ DOMAIN fs = {"test_input_multiclass.tribuo", "test_input_binary.tribuo"}
    /\ Len(Written) > 0

(***************************************************************************)
(* C2.  Count invariant: after i iterations of the loop the counts sum to  *)
(* i and i lines have been appended; when generate_data has written the    *)
(* file the counts sum to n, the file has n lines, and n is 1000 for       *)
(* train and 100 for test, for both problem types.                         *)
(***************************************************************************)
CountInvariant ==
    /\ pc = "loop" => Total(counts) = i /\ Len(lns) = i /\ i <= n
    /\ pc \in {"open", "write"} => Total(counts) = n /\ Len(lns) = n
    /\ pc = "return" =>
           /\ Total(counts) = n
           /\ Len(Lines(Written)) = n
           /\ n = IF mode = "train" THEN 1000 ELSE 100

\* The binary train file has been written, every label counted.
CountWitness ==
    /\ pc = "return"
    /\ mode = "train"
    /\ problem_type = "binary"
    /\ Len(Lines(Written)) = 1000
    /\ \A l \in DOMAIN counts : counts[l] > 0

(***************************************************************************)
(* C3.  Label domain invariant: every record of a written fixture file    *)
(* has a label of the label set of the problem type, {POS, NEG} for        *)
(* binary and {POS, NEG, NEU} for multiclass, and a token of the           *)
(* vocabulary {aaa, bbb, ccc}.                                             *)
(***************************************************************************)
LabelDomain ==
    pc = "return" =>
        \A ln \in Range(Lines(Written)) :
            /\ Separators(ln) # {}
            /\ LabelOf(ln) \in (IF problem_type = "binary"
                                THEN {"POS", "NEG"}
                                ELSE {"POS", "NEG", "NEU"})
            /\ TokenOf(ln) \in {"aaa", "bbb", "ccc"}

\* A binary file has been written in which both labels and all three
\* tokens occur.
LabelDomainWitness ==
    /\ pc = "return"
    /\ problem_type = "binary"
    /\ {LabelOf(ln) : ln \in Range(Lines(Written))} = {"POS", "NEG"}
    /\ {TokenOf(ln) : ln \in Range(Lines(Written))} = {"aaa", "bbb", "ccc"}

(***************************************************************************)
(* C4.  Format invariant: every line generate_data writes is a label, the  *)
(* separator ##, a token and one newline, with one occurrence of ## and    *)
(* no other newline; the lines of the file are these lines and nothing     *)
(* else (no header).                                                       *)
(***************************************************************************)
WellFormed(ln) ==
    /\ Cardinality(Separators(ln)) = 1
    /\ {k \in 1..Len(ln) : SubSeq(ln, k, k) = "\n"} = {Len(ln)}
    /\ ln = LabelOf(ln) \o "##" \o TokenOf(ln) \o "\n"
    /\ LabelOf(ln) # ""
    /\ TokenOf(ln) # ""

FormatInvariant ==
    pc = "return" =>
        /\ \A k \in DOMAIN lns : WellFormed(lns[k])
        /\ Lines(Written) = lns

\* A file of 1000 well-formed lines has been written.
FormatWitness ==
    /\ pc = "return"
    /\ mode = "train"
    /\ Len(lns) = 1000
    /\ Lines(Written) = lns
    /\ WellFormed(lns[1])

(***************************************************************************)
(* C5 as stated.  A call of generate_data with a mode outside              *)
(* {train, test} or a problem_type outside {binary, multiclass} raises at  *)
(* once: no such call is ever past its first line.                         *)
(***************************************************************************)
InvalidArgumentRejected ==
    (mode # "" /\ (mode \notin Modes \/ problem_type \notin ProblemTypes))
        => (pc = "raised" /\ exc = "AssertionError")

(***************************************************************************)
(* C5 amended.  Only the mode is checked.  A call with a mode outside      *)
(* {train, test} raises AssertionError in its first step, which changes no *)
(* file, and no fixture file of such a mode ever exists.  A problem_type   *)
(* outside {binary, multiclass} is not rejected: the call generates with   *)
(* the three labels POS, NEG, NEU and writes mode_input_problem_type.      *)
(***************************************************************************)
InvalidModeRejected ==
    /\ [](mode # "" /\ mode \notin Modes
            => pc = "raised" /\ exc = "AssertionError")
    /\ [][pc' = "raised" /\ pc # "raised" => pc = "caller" /\ fs' = fs]_vars
    /\ [](\A name \in DOMAIN fs :
            \E m \in {"train", "test"}, p \in ArgProblemTypes :
                name = m \o "_input_" \o p \o ".tribuo")
    /\ [](pc = "return" /\ problem_type \notin ProblemTypes
            => /\ exc = "none"
               /\ labels = <<"POS", "NEG", "NEU">>
               /\ mode \o "_input_" \o problem_type \o ".tribuo" \in DOMAIN fs
               /\ Lines(Written) = lns
               /\ Len(lns) = n)

\* A call with mode dev has raised while the files of earlier calls are on
\* disk.
InvalidModeWitness ==
    /\ pc = "raised"
    /\ exc = "AssertionError"
    /\ mode = "dev"
    /\ DOMAIN fs = {"train_input_regression.tribuo", "test_input_binary.tribuo"}

(***************************************************************************)
(* What the trainers of a run received.                                    *)
(***************************************************************************)
Argv == [k \in DOMAIN invocations |-> ShellWords(invocations[k])]

EndsWith(s, suffix) ==
    /\ Len(s) >= Len(suffix)
    /\ SubSeq(s, Len(s) - Len(suffix) + 1, Len(s)) = suffix

\* generate_models has been entered and has returned.
ModelsDone == pc = "exit" /\ calls = Len(MainCalls) + 1

(***************************************************************************)
(* C6.  Two-axis matrix completeness: the LibSVM script invokes the        *)
(* trainer 16 times, once on the binary and once on the multiclass         *)
(* fixtures for each of the 8 combinations of {C_SVC, NU_SVC} and          *)
(* {LINEAR, POLY, RBF, SIGMOID}; no combination is repeated at any point   *)
(* of the run, none is missing at its end, and the artifact names are      *)
(* pairwise distinct.                                                      *)
(***************************************************************************)
TwoAxisMatrix ==
    backend = "LibSVM" =>
        LET argv == Argv
            Cell(ls, kt, fixture) ==
                {k \in DOMAIN argv :
                    argv[k][2] = ls /\ argv[k][3] = kt /\ argv[k][5] = fixture}
            Cells == {"C_SVC", "NU_SVC"} \X {"LINEAR", "POLY", "RBF", "SIGMOID"}
                       \X {"train_input_binary.tribuo",
                           "train_input_multiclass.tribuo"}
        IN  /\ \A c \in Cells : Cardinality(Cell(c[1], c[2], c[3])) <= 1
            /\ \A k \in DOMAIN argv : <<argv[k][2], argv[k][3], argv[k][5]>> \in Cells
            /\ \A j, k \in DOMAIN argv : j # k => argv[j][4] # argv[k][4]
            /\ ModelsDone =>
                   /\ Len(invocations) = 16
                   /\ \A c \in Cells : Cardinality(Cell(c[1], c[2], c[3])) = 1

\* The LibSVM run is over with 16 invocations made.
TwoAxisMatrixWitness ==
    /\ backend = "LibSVM"
    /\ ModelsDone
    /\ Len(invocations) = 16
    /\ Cardinality({Argv[k][4] : k \in DOMAIN invocations}) = 16

(***************************************************************************)
(* C7.  Single-axis matrix: the LibLinear script invokes the trainer 9     *)
(* times: once on the binary fixtures for each of the 8 solver types,      *)
(* then, as the ninth and only multiclass invocation, L2R_LR on the        *)
(* multiclass fixtures.                                                    *)
(***************************************************************************)
SingleAxisMatrix ==
    backend = "LibLinear" =>
        LET argv == Argv
            Binary == {k \in DOMAIN argv :
                          /\ argv[k][4] = "train_input_binary.tribuo"
                          /\ argv[k][5] = "test_input_binary.tribuo"}
            Multi == {k \in DOMAIN argv :
                         /\ argv[k][4] = "train_input_multiclass.tribuo"
                         /\ argv[k][5] = "test_input_multiclass.tribuo"}
        IN  /\ Binary \cup Multi = DOMAIN argv
            /\ \A k \in Binary : k <= 8
            /\ \A j, k \in Binary : j # k => argv[j][2] # argv[k][2]
            /\ \A k \in Multi : k = 9 /\ argv[k][2] = "L2R_LR"
            /\ ModelsDone =>
                   /\ Len(invocations) = 9
                   /\ Binary = 1..8
                   /\ Multi = {9}
                   /\ {argv[k][2] : k \in Binary} =
                          {"L2R_LR", "L2R_L2LOSS_SVC_DUAL", "L2R_L2LOSS_SVC",
                           "L2R_L1LOSS_SVC_DUAL", "MCSVM_CS", "L1R_L2LOSS_SVC",
                           "L1R_LR", "L2R_LR_DUAL"}

\* The LibLinear run is over, the multiclass invocation made last.
SingleAxisMatrixWitness ==
    /\ backend = "LibLinear"
    /\ ModelsDone
    /\ Len(invocations) = 9
    /\ Argv[9][4] = "train_input_multiclass.tribuo"

(***************************************************************************)
(* C8.  Continue-on-failure: whatever statuses the trainers have returned, *)
(* the invocations made so far are the first ones of the one sequence the  *)
(* script makes when every trainer succeeds; a non-zero status raises      *)
(* nothing and ends nothing, each invocation returns one status, and the   *)
(* run ends with the whole sequence made.                                  *)
(***************************************************************************)
ReferenceLibLinear ==
    [k \in 1..9 |->
        LET id == <<"L2R_LR", "L2R_L2LOSS_SVC_DUAL", "L2R_L2LOSS_SVC",
                    "L2R_L1LOSS_SVC_DUAL", "MCSVM_CS", "L1R_L2LOSS_SVC",
                    "L1R_LR", "L2R_LR_DUAL", "L2R_LR">>[k]
        IN  IF k <= 8
            THEN <<"./src/test/scripts/generate-model.sh", id, id,
                   "train_input_binary.tribuo", "test_input_binary.tribuo">>
            ELSE <<"./src/test/scripts/generate-model.sh", id,
                   "L2R_LR_multiclass", "train_input_multiclass.tribuo",
                   "test_input_multiclass.tribuo">>]

ReferenceLibSVM ==
    [k \in 1..16 |->
        LET ls == <<"C_SVC", "NU_SVC">>[((k - 1) \div 8) + 1]
            kt == <<"LINEAR", "POLY", "RBF", "SIGMOID">>[(((k - 1) \div 2) % 4) + 1]
        IN  IF k % 2 = 1
            THEN <<"./src/test/scripts/generate-model.sh", ls, kt,
                   ls \o "_" \o kt,
                   "train_input_binary.tribuo", "test_input_binary.tribuo">>
            ELSE <<"./src/test/scripts/generate-model.sh", ls, kt,
                   ls \o "_" \o kt \o "_multiclass",
                   "train_input_multiclass.tribuo",
                   "test_input_multiclass.tribuo">>]

Reference == IF backend = "LibLinear" THEN ReferenceLibLinear ELSE ReferenceLibSVM

ContinueOnFailure ==
    /\ Len(invocations) <= Len(Reference)
    /\ Argv = SubSeq(Reference, 1, Len(invocations))
    /\ Len(exits) = Len(invocations) - (IF pc = "system" THEN 1 ELSE 0)
    /\ calls = Len(MainCalls) + 1 =>
           /\ exc = "none"
           /\ pc \in {"for", "system", "exit"}
    /\ ModelsDone => Len(invocations) = Len(Reference)

\* The first and the last trainer of a run exited non-zero and the run
\* made every invocation.
ContinueOnFailureWitness ==
    /\ ModelsDone
    /\ Len(exits) = Len(Reference)
    /\ exits[1] # 0
    /\ exits[Len(exits)] # 0
    /\ Argv = Reference

(***************************************************************************)
(* C9.  Invocation argument contract: every trainer receives the           *)
(* identifier(s), the artifact name, the train fixture and the test        *)
(* fixture, in this order; the two fixtures are the files generate_data    *)
(* writes for train and test of one problem type; the artifact name ends   *)
(* in _multiclass exactly when that type is multiclass, and without the    *)
(* suffix it is the identifier (LibLinear) or the two identifiers joined   *)
(* by _ (LibSVM).                                                          *)
(***************************************************************************)
ArgumentContract ==
    \A k \in DOMAIN invocations :
        LET a == Argv[k]
            ids == IF backend = "LibLinear" THEN 1 ELSE 2
            artifact == a[ids + 2]
            stem == IF backend = "LibLinear" THEN a[2]
                    ELSE a[2] \o "_" \o a[3]
        IN  /\ Len(a) = ids + 4
            /\ a[1] = "./src/test/scripts/generate-model.sh"
            /\ IF backend = "LibLinear"
               THEN a[2] \in Range(lltypes)
               ELSE a[2] \in Range(lstypes) /\ a[3] \in Range(ktypes)
            /\ \E p \in ProblemTypes :
                  /\ a[ids + 3] = FileName("train", p)
                  /\ a[ids + 4] = FileName("test", p)
                  /\ EndsWith(artifact, "_multiclass") <=> p = "multiclass"
                  /\ artifact = IF p = "multiclass"
                                THEN stem \o "_multiclass" ELSE stem

\* A LibSVM run has made a binary and a multiclass invocation.
ArgumentContractWitness ==
    /\ backend = "LibSVM"
    /\ Len(invocations) >= 2
    /\ Argv[1][4] = "C_SVC_LINEAR"
    /\ Argv[2][4] = "C_SVC_LINEAR_multiclass"
    /\ Argv[2][5] = "train_input_multiclass.tribuo"

(***************************************************************************)
(* C10.  Strictly sequential invocation: at most one trainer runs at any   *)
(* time, and a trainer is started only when every trainer started before   *)
(* it has returned its status; while one runs, none is started.            *)
(***************************************************************************)
StrictlySequential ==
    /\ [](Cardinality(running) <= 1)
    /\ [][Len(invocations') > Len(invocations)
            => /\ running = {}
               /\ Len(exits) = Len(invocations)
               /\ Len(invocations') = Len(invocations) + 1
               /\ running' = {Len(invocations')}]_vars
    /\ [][running # {} => invocations' = invocations]_vars

\* The third trainer runs, the first two have returned.
StrictlySequentialWitness ==
    /\ running = {3}
    /\ Len(invocations) = 3
    /\ Len(exits) = 2

(***************************************************************************)
(* C11.  Enumeration order: the trainers are invoked in the order in which *)
(* the identifier lists are declared.  LibLinear: the k-th invocation is   *)
(* for the k-th of L2R_LR, L2R_L2LOSS_SVC_DUAL, L2R_L2LOSS_SVC,            *)
(* L2R_L1LOSS_SVC_DUAL, MCSVM_CS, L1R_L2LOSS_SVC, L1R_LR, L2R_LR_DUAL, and *)
(* the ninth is the multiclass L2R_LR.  LibSVM: the loss type is the outer *)
(* axis (C_SVC before NU_SVC), the kernel type the inner axis (LINEAR,     *)
(* POLY, RBF, SIGMOID), and the binary invocation of a combination is      *)
(* immediately followed by the multiclass invocation of that combination.  *)
(* The sequence of invocations only ever grows at its end.                 *)
(***************************************************************************)
PositionIn(seq, x) == CHOOSE j \in DOMAIN seq : seq[j] = x

EnumerationOrder ==
    /\ [](backend = "LibLinear" =>
            \A k \in DOMAIN invocations :
                /\ k <= 9
                /\ Argv[k][2] =
                       <<"L2R_LR", "L2R_L2LOSS_SVC_DUAL", "L2R_L2LOSS_SVC",
                         "L2R_L1LOSS_SVC_DUAL", "MCSVM_CS", "L1R_L2LOSS_SVC",
                         "L1R_LR", "L2R_LR_DUAL", "L2R_LR">>[k]
                /\ Argv[k][4] = "train_input_multiclass.tribuo" <=> k = 9)
    /\ [](backend = "LibSVM" =>
            LET argv == Argv
                Loss(k) == PositionIn(<<"C_SVC", "NU_SVC">>, argv[k][2])
                Kernel(k) ==
                    PositionIn(<<"LINEAR", "POLY", "RBF", "SIGMOID">>, argv[k][3])
                Multi(k) == argv[k][5] = "train_input_multiclass.tribuo"
            IN  /\ \A j, k \in DOMAIN argv :
                      j < k =>
                          \/ Loss(j) < Loss(k)
                          \/ Loss(j) = Loss(k) /\ Kernel(j) < Kernel(k)
                          \/ /\ Loss(j) = Loss(k)
                             /\ Kernel(j) = Kernel(k)
                             /\ ~Multi(j)
                             /\ Multi(k)
                /\ \A k \in DOMAIN argv :
                      Multi(k) =>
                          /\ k > 1
                          /\ ~Multi(k - 1)
                          /\ argv[k - 1][2] = argv[k][2]
                          /\ argv[k - 1][3] = argv[k][3]
                /\ \A k \in DOMAIN argv :
                      (~Multi(k) /\ k < Len(argv)) =>
                          /\ Multi(k + 1)
                          /\ argv[k + 1][2] = argv[k][2]
                          /\ argv[k + 1][3] = argv[k][3])
    /\ [][/\ Len(invocations') >= Len(invocations)
          /\ SubSeq(invocations', 1, Len(invocations)) = invocations]_vars

\* A LibSVM run is over: the kernel types were exhausted for C_SVC before
\* the first invocation for NU_SVC.
EnumerationOrderWitness ==
    /\ backend = "LibSVM"
    /\ ModelsDone
    /\ Argv[8][2] = "C_SVC"
    /\ Argv[8][3] = "SIGMOID"
    /\ Argv[9][2] = "NU_SVC"
    /\ Argv[9][3] = "LINEAR"
    /\ Argv[16][3] = "SIGMOID"

(***************************************************************************)
(* C12.  Generator before orchestrator: in a run of __main__ the four      *)
(* fixture files, of four different names mode_input_problemtype.tribuo,   *)
(* are each created once, written in full and closed before the first      *)
(* trainer is invoked.  A step that changes the working directory changes  *)
(* only the file of the generate_data call in progress and is taken while  *)
(* no trainer has been invoked; a file is opened only when it does not     *)
(* exist yet; and when a trainer is invoked all four files are complete,   *)
(* the two it is given among them.                                         *)
(***************************************************************************)
FixtureNames ==
    {m \o "_input_" \o p \o ".tribuo" :
        m \in {"train", "test"}, p \in {"binary", "multiclass"}}

\* The number of terminated lines of a file.
Terminators(d) == Cardinality({k \in 1..Len(d) : SubSeq(d, k, k) = "\n"})

\* The file has every record of its mode, the last one terminated.
Complete(files, name) ==
    /\ name \in DOMAIN files
    /\ Len(files[name]) > 0
    /\ SubSeq(files[name], Len(files[name]), Len(files[name])) = "\n"
    /\ Terminators(files[name]) =
           IF SubSeq(name, 1, 5) = "train" THEN 1000 ELSE 100

GeneratorBeforeOrchestrator ==
    /\ [][fs' # fs =>
            /\ invocations' = <<>>
            /\ running' = {}
            /\ pc \in {"open", "write"}
            /\ FileName(mode, problem_type) \in FixtureNames
            /\ DOMAIN fs' = DOMAIN fs \cup {FileName(mode, problem_type)}
            /\ \A f \in DOMAIN fs :
                  f # FileName(mode, problem_type) => fs'[f] = fs[f]]_vars
    /\ [][(pc = "open" /\ fs' # fs) =>
            FileName(mode, problem_type) \notin DOMAIN fs]_vars
    /\ [][(pc = "write" /\ pc' = "return") =>
            Complete(fs', FileName(mode, problem_type))]_vars
    /\ [][Len(invocations') > Len(invocations) =>
            LET a == ShellWords(invocations'[Len(invocations')])
            IN  /\ Cardinality(FixtureNames) = 4
                /\ DOMAIN fs = FixtureNames
                /\ \A f \in FixtureNames : Complete(fs, f)
                /\ {a[Len(a) - 1], a[Len(a)]} \subseteq FixtureNames
                /\ fs' = fs
                /\ pc = "for"]_vars

\* The first trainer runs with the four fixture files on disk.
GeneratorFirstWitness ==
    /\ running = {1}
    /\ Len(invocations) = 1
    /\ DOMAIN fs = FixtureNames
    /\ Len(fs["test_input_multiclass.tribuo"]) = 900
    /\ Len(fs["train_input_multiclass.tribuo"]) = 9000

(***************************************************************************)
(* C13.  Artifact-name uniqueness: within a run of generate_models no two  *)
(* trainers are given the same artifact name, so none overwrites the       *)
(* artifact of another: 9 different names for LibLinear, L2R_LR and        *)
(* L2R_LR_multiclass among them, 16 for LibSVM.  Every name is an          *)
(* algorithm identifier (LibLinear) or a loss type and a kernel type       *)
(* joined by _ (LibSVM), optionally followed by _multiclass.               *)
(***************************************************************************)
ArtifactNames ==
    {Argv[k][IF backend = "LibLinear" THEN 3 ELSE 4] : k \in DOMAIN invocations}

ArtifactStems ==
    IF backend = "LibLinear"
    THEN {"L2R_LR", "L2R_L2LOSS_SVC_DUAL", "L2R_L2LOSS_SVC",
          "L2R_L1LOSS_SVC_DUAL", "MCSVM_CS", "L1R_L2LOSS_SVC", "L1R_LR",
          "L2R_LR_DUAL"}
    ELSE {ls \o "_" \o kt :
             ls \in {"C_SVC", "NU_SVC"},
             kt \in {"LINEAR", "POLY", "RBF", "SIGMOID"}}

ArtifactUniqueness ==
    /\ Cardinality(ArtifactNames) = Len(invocations)
    /\ ArtifactNames \subseteq
           ArtifactStems \cup {stem \o "_multiclass" : stem \in ArtifactStems}
    /\ ModelsDone =>
           /\ Cardinality(ArtifactNames) = IF backend = "LibLinear" THEN 9 ELSE 16
           /\ backend = "LibLinear" =>
                  {"L2R_LR", "L2R_LR_multiclass"} \subseteq ArtifactNames

\* A LibLinear run is over: L2R_LR was trained twice, under two names.
ArtifactUniquenessWitness ==
    /\ backend = "LibLinear"
    /\ ModelsDone
    /\ Argv[1][2] = Argv[9][2]
    /\ Argv[1][3] = "L2R_LR"
    /\ Argv[9][3] = "L2R_LR_multiclass"
    /\ Cardinality(ArtifactNames) = 9

(***************************************************************************)
(* C14.  IOFailure: when the fixture file cannot be opened or written,     *)
(* the OSError leaves generate_data in the step in which it is raised.     *)
(* From then on the exception stays unhandled, the working directory is    *)
(* not touched again (the open or write is not attempted a second time),   *)
(* __main__ makes no further generate_data call, and no trainer is ever    *)
(* invoked.                                                                *)
(***************************************************************************)
IOFailurePropagates ==
    /\ [][(pc \in {"open", "write"} /\ pc' \notin {"open", "write", "return"})
            => /\ pc' = "raised"
               /\ exc' = "OSError"
               /\ calls' = calls]_vars
    /\ [](exc = "OSError" =>
            /\ pc \in {"raised", "exit"}
            /\ calls <= Len(MainCalls)
            /\ invocations = <<>>
            /\ running = {})
    /\ [][exc = "OSError" =>
            /\ exc' = "OSError"
            /\ pc' = "exit"
            /\ fs' = fs
            /\ calls' = calls
            /\ mode' = mode
            /\ problem_type' = problem_type
            /\ invocations' = invocations]_vars

\* The write of the third fixture failed part way: the run is over with
\* the file cut short, the fourth fixture absent and no trainer invoked.
IOFailureWitness ==
    /\ pc = "exit"
    /\ exc = "OSError"
    /\ calls = 3
    /\ DOMAIN fs = {"train_input_binary.tribuo", "test_input_binary.tribuo",
                    "train_input_multiclass.tribuo"}
    /\ Len(fs["train_input_multiclass.tribuo"]) \in 1..8999
    /\ invocations = <<>>

(***************************************************************************)
(* C15.  Termination of generate_models: provided every trainer that is    *)
(* started ends, with whatever status, a run that has entered              *)
(* generate_models leaves it, and when it has, every configuration of the  *)
(* back end has been invoked exactly once: none twice, none left out.      *)
(***************************************************************************)
TimesInvoked(cell) == Cardinality({k \in DOMAIN invocations : Argv[k] = cell})

BuildAllTerminated ==
    /\ ModelsDone
    /\ running = {}
    /\ \A k \in DOMAIN Reference : TimesInvoked(Reference[k]) = 1
    /\ \A k \in DOMAIN invocations : Argv[k] \in Range(Reference)

BuildAllTerminates == (calls = Len(MainCalls) + 1) ~> BuildAllTerminated

\* generate_models has returned after two of its trainers exited non-zero,
\* every configuration invoked once.
BuildAllTerminatesWitness ==
    /\ BuildAllTerminated
    /\ Failures(exits) = 2
    /\ Len(exits) = Len(Reference)
    /\ exits[2] # 0

(***************************************************************************)
(* C16.  Train/test overlap: every call of generate_data seeds the         *)
(* generator with the same value and draws label, then token, per record,  *)
(* so for each problem type the test fixture is the first 100 records of   *)
(* the train fixture.  Whenever both files are complete, the test file is  *)
(* 100 terminated lines and is, byte for byte, the beginning of the train  *)
(* file: line k of the one is line k of the other for the first 100 lines. *)
(* This holds of the working directory the run starts with and of the one  *)
(* each step that changes a file leaves, hence of every one.               *)
(***************************************************************************)
FirstRecordsAgree ==
    \A p \in {"binary", "multiclass"} :
        LET train == "train_input_" \o p \o ".tribuo"
            test == "test_input_" \o p \o ".tribuo"
        IN  (Complete(fs, train) /\ Complete(fs, test)) =>
                /\ Terminators(fs[test]) = 100
                /\ Len(fs[train]) > Len(fs[test])
                /\ SubSeq(fs[train], 1, Len(fs[test])) = fs[test]

TrainTestOverlap ==
    /\ FirstRecordsAgree
    /\ [][fs' # fs => FirstRecordsAgree']_vars

\* The multiclass test fixture has just been written, the multiclass train
\* fixture being on disk: they agree on the first 100 records, and records
\* of all three labels are among them.
TrainTestOverlapWitness ==
    /\ pc = "return"
    /\ mode = "test"
    /\ problem_type = "multiclass"
    /\ Complete(fs, "train_input_multiclass.tribuo")
    /\ Complete(fs, "test_input_multiclass.tribuo")
    /\ Lines(fs["train_input_multiclass.tribuo"])[100] = lns[100]
    /\ {LabelOf(lns[k]) : k \in 1..100} = {"POS", "NEG", "NEU"}

====
